---- MODULE Spec2Model ----
(***************************************************************************)
(* Friend-request state machine and partner discovery of the Express       *)
(* backend (backend/src/routes/friends.js, partners.js, auth.js), and the  *)
(* live-location uplink of the LivePlayersMap component.                   *)
(*                                                                         *)
(* Strings are sequences of UTF-16 code units, so that sorting, joining,   *)
(* trimming and comparing are computed as JavaScript computes them.        *)
(***************************************************************************)
EXTENDS Integers, Sequences, FiniteSets, TLC

VARIABLES
    users,          \* the users of the store (db.json), in store order
    friendships,    \* the friendships of the store, in store order
    clock,          \* the last value Date.now() returned on the server
    resp            \* the response on its way to the client, if any

VARIABLES
    comp,               \* LivePlayersMap: "unrendered", "mounted" or "unmounted"
    configured,         \* base and eventId are both non-empty
    sharing,            \* useState sharing
    error,              \* useState error: "none", or the kind of message shown
    gpsWarning,         \* useState gpsWarning: a warning is shown
    deviceFix,          \* useState deviceFix
    watchIdRef,         \* watchIdRef.current != null
    inFlightRef,        \* inFlightRef.current
    queuedPayloadRef,   \* queuedPayloadRef.current
    throttleTimerRef,   \* throttleTimerRef.current != null
    unmountedRef,       \* unmountedRef.current
    sinceSent,          \* Date.now() - lastSentAtRef.current, up to ThrottleMs
    timer,              \* the browser's pending throttle timeout: NULL or Some(ms left)
    watches,            \* the number of device watches the browser holds
    oneShots,           \* the getCurrentPosition calls not yet answered
    puts,               \* the live-location PUT requests in flight
    fetches,            \* the live-locations GETs in flight
    deletes,            \* the live-location DELETE requests in flight
    obs                 \* what an observer of the session has seen so far

VARIABLES
    pollSeconds,    \* the prop pollSeconds, in units of 0.1 ms, or not finite
    pollTimer,      \* the browser's poll interval: NULL or Some(period in ms)
    stale,          \* the GETs in flight issued before one that has succeeded
    locations       \* useState locations: "none", or the response it shows

VARIABLES
    data,           \* db.data, while handlers run concurrently
    handlers,       \* the handlers under way, each at one of its awaits
    writes          \* the db.write() calls not yet on disk, oldest first

VARIABLES
    channels,       \* the messaging channels that exist at Stream
    streamUsers,    \* the users upserted at Stream
    tokenResp       \* the last answer of GET /api/stream/token

backendVars == <<users, friendships, clock, resp>>

chatVars == <<channels, streamUsers, tokenResp>>

liveVars == <<comp, configured, sharing, error, gpsWarning, deviceFix, watchIdRef,
              inFlightRef, queuedPayloadRef, throttleTimerRef, unmountedRef,
              sinceSent, timer, watches, oneShots, puts, fetches, deletes, obs>>

pollVars == <<pollSeconds, pollTimer, stale, locations>>

raceVars == <<data, handlers, writes>>

vars == <<backendVars, liveVars, pollVars, chatVars, raceVars>>

(***************************************************************************)
(* Bounds of the model.                                                    *)
(***************************************************************************)
\* Date.now() on the server ranges over 1..MaxClock.
MaxClock == 2

\* The device delivers at most MaxFixes readings to the component.
MaxFixes == 2

\* At most MaxOneShots getCurrentPosition calls are unanswered at a time.
MaxOneShots == 1

\* Sharing is started while fewer than MaxDeletes DELETEs are unanswered.
MaxDeletes == 1

\* The interval poll fires while fewer than MaxFetches GETs are unanswered.
MaxFetches == 2

\* At most MaxHandlers requests are handled concurrently.
MaxHandlers == 2

\* Time on the client advances in steps of ThrottleMs / TicksPerGap.
TicksPerGap == 2

\* The largest user store partner discovery is run on.
MaxStore == 52

(***************************************************************************)
(* Strings.                                                                *)
(***************************************************************************)
\* A nullable value is a sequence of length at most one: NULL, or Some(v).
NULL == <<>>

Some(v) == <<v>>

\* v ?? d
OrElse(v, d) == IF v = NULL THEN d ELSE v[1]

\* The code units String.prototype.trim removes (space, tab, LF, CR).
IsSpace(c) == c \in {32, 9, 10, 13}

RECURSIVE TrimStart(_)
TrimStart(s) ==
    IF s = <<>> THEN <<>>
    ELSE IF IsSpace(Head(s)) THEN TrimStart(Tail(s)) ELSE s

RECURSIVE TrimEnd(_)
TrimEnd(s) ==
    IF s = <<>> THEN <<>>
    ELSE IF IsSpace(s[Len(s)]) THEN TrimEnd(SubSeq(s, 1, Len(s) - 1)) ELSE s

Trim(s) == TrimEnd(TrimStart(s))

\* s < t in the order Array.prototype.sort uses by default: code unit by
\* code unit, a proper prefix first.
RECURSIVE StrLess(_, _)
StrLess(s, t) ==
    IF t = <<>> THEN FALSE
    ELSE IF s = <<>> THEN TRUE
    ELSE IF Head(s) # Head(t) THEN Head(s) < Head(t)
    ELSE StrLess(Tail(s), Tail(t))

\* the pair as given, without the sort
SortPair_Kept(a, b) == <<a, b>>

\* [a, b].slice().sort(): the sort is stable, so equal strings keep their order.
SortPair(a, b) == IF StrLess(b, a) THEN <<b, a>> ELSE <<a, b>>

\* "__"
KeySeparator == <<95, 95>>

\* the key without the sort
friendshipKey_Unsorted(a, b) == a \o KeySeparator \o b

friendshipKey(a, b) == SortPair(a, b)[1] \o KeySeparator \o SortPair(a, b)[2]

(***************************************************************************)
(* Inputs.                                                                 *)
(***************************************************************************)
\* The identifiers randomUUID() returns: fixed-length strings over the UUID
\* alphabet (lower-case hex digits), here "b0", "a1", "a0".
IdPool == { <<98, 48>>, <<97, 49>>, <<97, 48>> }

\* The registration forms submitted: "Cy"/"cy"/"C@x" (new), "Ann"/"ANN"/"d@x"
\* (a username in use, in another case) and a form without email.
RegForms == {
    [fullName |-> <<67, 121>>, username |-> <<99, 121>>, email |-> <<67, 64, 120>>],
    [fullName |-> <<65, 110, 110>>, username |-> <<65, 78, 78>>, email |-> <<100, 64, 120>>],
    [fullName |-> <<67, 121>>, username |-> <<99, 121>>, email |-> <<>>] }

\* The userId fields posted to /friends/request and /friends/accept: absent,
\* blank, an identifier, or an identifier with surrounding white space.
UserIdInputs ==
    { <<>>, <<32>> } \cup IdPool \cup { <<32>> \o i \o <<32>> : i \in { <<97, 49>> } }

\* The query strings of /partners/find-partner: no filter, q = " AN ",
\* q = "b@", and q = "@" with skill = "pro" and location = " X".
QueryInputs == {
    [q |-> <<>>, skill |-> <<>>, location |-> <<>>],
    [q |-> <<32, 65, 78, 32>>, skill |-> <<>>, location |-> <<>>],
    [q |-> <<98, 64>>, skill |-> <<>>, location |-> <<>>],
    [q |-> <<64>>, skill |-> <<112, 114, 111>>, location |-> <<32, 88>>] }

Times == 1..MaxClock

\* What Date.now() may return next: the millisecond of its last value, or the
\* one after it.
Nows == { t \in Times : t \in {clock, clock + 1} }

(***************************************************************************)
(* The user and relationship stores.                                       *)
(***************************************************************************)
Range(s) == { s[i] : i \in 1..Len(s) }

UserIds == { users[i].id : i \in 1..Len(users) }

\* db.data.users.find((u) => u.id === id): the first match, or NULL
findUser(us, id) ==
    IF \E i \in 1..Len(us) : us[i].id = id
    THEN Some(us[CHOOSE i \in 1..Len(us) :
                    /\ us[i].id = id
                    /\ \A j \in 1..(i - 1) : us[j].id # id])
    ELSE NULL

\* a lookup that never matches
findByKey_Miss(fs, key) == 0

\* db.data.friendships.find((f) => f.key === key): the index of the first
\* match, or 0
findByKey(fs, key) ==
    IF \E i \in 1..Len(fs) : fs[i].key = key
    THEN CHOOSE i \in 1..Len(fs) :
                /\ fs[i].key = key
                /\ \A j \in 1..(i - 1) : fs[j].key # key
    ELSE 0

publicUser(u) ==
    [id |-> u.id, email |-> u.email, username |-> u.username,
     fullName |-> u.fullName, skill |-> u.skill, location |-> u.location]

Response(op, caller, arg, code, status, body) ==
    [op |-> op, caller |-> caller, arg |-> arg, code |-> code,
     status |-> status, body |-> body]

NoResponse == Response("none", <<>>, <<>>, 0, "", <<>>)

(***************************************************************************)
(* requireAuth: the session cookie.                                        *)
(***************************************************************************)
\* The bp_token cookie of a request: absent, a token jwt.verify rejects, or a
\* token jwt.verify accepts, with the userId of its payload.
NoCookie == NULL

BadToken == Some([valid |-> FALSE, userId |-> <<>>])

TokenFor(id) == Some([valid |-> TRUE, userId |-> id])

\* The cookies sent to a store `us`: none, a bad token, a token without
\* userId, and a token for every identifier, registered or not.
Cookies(us) ==
    { NoCookie, BadToken, TokenFor(<<>>) }
        \cup { TokenFor(id) : id \in IdPool \cup { us[i].id : i \in 1..Len(us) } }

\* the middleware that takes the token's word for the user
requireAuth_TrustsToken(us, cookie) ==
    IF cookie = NULL THEN NULL
    ELSE IF ~cookie[1].valid THEN NULL
    ELSE IF cookie[1].userId = <<>> THEN NULL
    ELSE Some([id |-> cookie[1].userId])

\* req.user, or NULL when the middleware answers 401
requireAuth(us, cookie) ==
    IF cookie = NULL THEN NULL
    ELSE IF ~cookie[1].valid THEN NULL
    ELSE IF cookie[1].userId = <<>> THEN NULL
    ELSE findUser(us, cookie[1].userId)

\* res.status(401).json({message: "Not authenticated"}), without next(): the
\* answer is the middleware's, whatever the route
Unauthorized ==
    /\ resp' = Response("requireAuth", <<>>, <<>>, 401, "", <<>>)
    /\ UNCHANGED <<users, friendships, clock>>

(***************************************************************************)
(* POST /api/auth/register                                                 *)
(***************************************************************************)
RECURSIVE toLowerCase(_)
toLowerCase(s) ==
    IF s = <<>> THEN <<>>
    ELSE <<IF Head(s) \in 65..90 THEN Head(s) + 32 ELSE Head(s)>> \o toLowerCase(Tail(s))

emailTaken(us, email) ==
    \E i \in 1..Len(us) : toLowerCase(us[i].email) = toLowerCase(email)

usernameTaken(us, username) ==
    \E i \in 1..Len(us) : toLowerCase(us[i].username) = toLowerCase(username)

\* The passwordHash and the createdAt of a user are written here and read by
\* no route; the user records of the model leave them out.
Register(form, uuid) ==
    /\ UNCHANGED <<friendships, clock>>
    /\ IF form.fullName = <<>> \/ form.username = <<>> \/ form.email = <<>>
       THEN /\ resp' = Response("register", <<>>, form.email, 400, "", <<>>)
            /\ UNCHANGED users
       ELSE IF emailTaken(users, form.email) \/ usernameTaken(users, form.username)
       THEN /\ resp' = Response("register", <<>>, form.email, 409, "", <<>>)
            /\ UNCHANGED users
       ELSE /\ users' = Append(users,
                    [id |-> uuid, email |-> Trim(form.email),
                     username |-> Trim(form.username),
                     fullName |-> Trim(form.fullName),
                     skill |-> NULL, location |-> NULL])
            /\ resp' = Response("register", uuid, form.email, 201, "", <<uuid>>)

(***************************************************************************)
(* POST /api/friends/request                                               *)
(***************************************************************************)
\* the record with requester and addressee exchanged
NewFriendship_Swapped(myId, targetId, now) ==
    [key |-> friendshipKey(myId, targetId),
     userAId |-> SortPair(myId, targetId)[1],
     userBId |-> SortPair(myId, targetId)[2],
     requesterId |-> targetId,
     addresseeId |-> myId,
     status |-> "pending",
     createdAt |-> now,
     updatedAt |-> now]

\* the record with userAId and userBId in the order of the call
NewFriendship_Unsorted(myId, targetId, now) ==
    [key |-> friendshipKey(myId, targetId),
     userAId |-> myId,
     userBId |-> targetId,
     requesterId |-> myId,
     addresseeId |-> targetId,
     status |-> "pending",
     createdAt |-> now,
     updatedAt |-> now]

NewFriendship(myId, targetId, now) ==
    [key |-> friendshipKey(myId, targetId),
     userAId |-> SortPair(myId, targetId)[1],
     userBId |-> SortPair(myId, targetId)[2],
     requesterId |-> myId,
     addresseeId |-> targetId,
     status |-> "pending",
     createdAt |-> now,
     updatedAt |-> now]

\* the update without the status
Accepted_StatusKept(f, now) == [f EXCEPT !.updatedAt = now]

\* existing.status = "accepted"; existing.updatedAt = Date.now()
Accepted(f, now) == [f EXCEPT !.status = "accepted", !.updatedAt = now]

\* the handler without the lookup of the target
RequestOutcome_NoTargetCheck(us, fs, clk, myId, rawUserId, now) ==
    LET targetId == Trim(rawUserId)
        key == friendshipKey(myId, targetId)
        at == findByKey(fs, key)
        Same(code, status) == [code |-> code, status |-> status, fs |-> fs, clock |-> clk]
    IN  IF targetId = <<>> THEN Same(400, "")
        ELSE IF targetId = myId THEN Same(400, "")
        ELSE IF at # 0 /\ fs[at].status = "accepted" THEN Same(200, "accepted")
        ELSE IF at # 0 /\ fs[at].status = "pending"
             THEN IF fs[at].requesterId = myId
                  THEN Same(200, "pending")
                  ELSE [code |-> 200, status |-> "accepted",
                        fs |-> [fs EXCEPT ![at] = Accepted(fs[at], now)],
                        clock |-> now]
        ELSE [code |-> 201, status |-> "pending",
              fs |-> Append(fs, NewFriendship(myId, targetId, now)),
              clock |-> now]

\* The handler's answer, the records it leaves, and the last value Date.now()
\* has returned (clk before the call, now if the handler reads the time).
RequestOutcome(us, fs, clk, myId, rawUserId, now) ==
    LET targetId == Trim(rawUserId)
        key == friendshipKey(myId, targetId)
        at == findByKey(fs, key)
        Same(code, status) == [code |-> code, status |-> status, fs |-> fs, clock |-> clk]
    IN  IF targetId = <<>> THEN Same(400, "")
        ELSE IF targetId = myId THEN Same(400, "")
        ELSE IF findUser(us, targetId) = NULL THEN Same(404, "")
        ELSE IF at # 0 /\ fs[at].status = "accepted" THEN Same(200, "accepted")
        ELSE IF at # 0 /\ fs[at].status = "pending"
             THEN IF fs[at].requesterId = myId
                  THEN Same(200, "pending")
                  ELSE [code |-> 200, status |-> "accepted",
                        fs |-> [fs EXCEPT ![at] = Accepted(fs[at], now)],
                        clock |-> now]
        ELSE [code |-> 201, status |-> "pending",
              fs |-> Append(fs, NewFriendship(myId, targetId, now)),
              clock |-> now]

PostRequest(myId, rawUserId, now) ==
    LET out == RequestOutcome(users, friendships, clock, myId, rawUserId, now)
    IN  /\ clock' = out.clock
        /\ friendships' = out.fs
        /\ resp' = Response("request", myId, Trim(rawUserId), out.code, out.status, <<>>)
        /\ UNCHANGED users

(***************************************************************************)
(* POST /api/friends/accept                                                *)
(***************************************************************************)
\* the handler without the check of the addressee
AcceptOutcome_NoAuthorization(fs, clk, myId, rawUserId, now) ==
    LET fromUserId == Trim(rawUserId)
        key == friendshipKey(myId, fromUserId)
        at == findByKey(fs, key)
        Same(code) == [code |-> code, status |-> "", fs |-> fs, clock |-> clk]
    IN  IF fromUserId = <<>> THEN Same(400)
        ELSE IF at = 0 \/ fs[at].status # "pending" THEN Same(404)
        ELSE [code |-> 200, status |-> "accepted",
              fs |-> [fs EXCEPT ![at] = Accepted(fs[at], now)],
              clock |-> now]

\* the handler that accepts a record whatever its status
AcceptOutcome_AnyStatus(fs, clk, myId, rawUserId, now) ==
    LET fromUserId == Trim(rawUserId)
        key == friendshipKey(myId, fromUserId)
        at == findByKey(fs, key)
        Same(code) == [code |-> code, status |-> "", fs |-> fs, clock |-> clk]
    IN  IF fromUserId = <<>> THEN Same(400)
        ELSE IF at = 0 THEN Same(404)
        ELSE IF fs[at].addresseeId # myId THEN Same(403)
        ELSE [code |-> 200, status |-> "accepted",
              fs |-> [fs EXCEPT ![at] = Accepted(fs[at], now)],
              clock |-> now]

AcceptOutcome(fs, clk, myId, rawUserId, now) ==
    LET fromUserId == Trim(rawUserId)
        key == friendshipKey(myId, fromUserId)
        at == findByKey(fs, key)
        Same(code) == [code |-> code, status |-> "", fs |-> fs, clock |-> clk]
    IN  IF fromUserId = <<>> THEN Same(400)
        ELSE IF at = 0 \/ fs[at].status # "pending" THEN Same(404)
        ELSE IF fs[at].addresseeId # myId THEN Same(403)
        ELSE [code |-> 200, status |-> "accepted",
              fs |-> [fs EXCEPT ![at] = Accepted(fs[at], now)],
              clock |-> now]

PostAccept(myId, rawUserId, now) ==
    LET out == AcceptOutcome(friendships, clock, myId, rawUserId, now)
    IN  /\ clock' = out.clock
        /\ friendships' = out.fs
        /\ resp' = Response("accept", myId, Trim(rawUserId), out.code, out.status, <<>>)
        /\ UNCHANGED users

(***************************************************************************)
(* GET /api/friends and GET /api/friends/requests                          *)
(***************************************************************************)
\* db.data.users.find(...) over a list of ids, then .filter(Boolean): the ids
\* without a user drop out
ResolveUsers(us, ids) ==
    LET found == SelectSeq(ids, LAMBDA id : findUser(us, id) # NULL)
    IN  [i \in 1..Len(found) |-> findUser(us, found[i])[1]]

\* the list that looks at userAId alone
listFriends_OneSided(us, fs, myId) ==
    LET accepted == SelectSeq(fs, LAMBDA f :
                        f.key # <<>> /\ f.userAId = myId /\ f.status = "accepted")
        others == [i \in 1..Len(accepted) |-> accepted[i].userBId]
        friends == ResolveUsers(us, others)
    IN  [i \in 1..Len(friends) |-> publicUser(friends[i])]

\* the list that does not look at the status
listFriends_AnyStatus(us, fs, myId) ==
    LET accepted == SelectSeq(fs, LAMBDA f :
                        /\ f.key # <<>>
                        /\ (f.userAId = myId \/ f.userBId = myId))
        others == [i \in 1..Len(accepted) |->
                        IF accepted[i].userAId = myId
                        THEN accepted[i].userBId ELSE accepted[i].userAId]
        friends == ResolveUsers(us, others)
    IN  [i \in 1..Len(friends) |-> publicUser(friends[i])]

listFriends(us, fs, myId) ==
    LET accepted == SelectSeq(fs, LAMBDA f :
                        /\ f.key # <<>>
                        /\ (f.userAId = myId \/ f.userBId = myId)
                        /\ f.status = "accepted")
        others == [i \in 1..Len(accepted) |->
                        IF accepted[i].userAId = myId
                        THEN accepted[i].userBId ELSE accepted[i].userAId]
        friends == ResolveUsers(us, others)
    IN  [i \in 1..Len(friends) |-> publicUser(friends[i])]

\* the list that does not look at the status
listRequests_AnyStatus(us, fs, myId) ==
    LET pendingIncoming == SelectSeq(fs, LAMBDA f : f.addresseeId = myId)
        known == SelectSeq(pendingIncoming, LAMBDA f :
                        findUser(us, f.requesterId) # NULL)
    IN  [i \in 1..Len(known) |->
            [from |-> publicUser(findUser(us, known[i].requesterId)[1]),
             createdAt |-> known[i].createdAt]]

listRequests(us, fs, myId) ==
    LET pendingIncoming == SelectSeq(fs, LAMBDA f :
                        f.status = "pending" /\ f.addresseeId = myId)
        known == SelectSeq(pendingIncoming, LAMBDA f :
                        findUser(us, f.requesterId) # NULL)
    IN  [i \in 1..Len(known) |->
            [from |-> publicUser(findUser(us, known[i].requesterId)[1]),
             createdAt |-> known[i].createdAt]]

GetFriends(myId) ==
    /\ UNCHANGED clock
    /\ resp' = Response("friends", myId, <<>>, 200, "", listFriends(users, friendships, myId))
    /\ UNCHANGED <<users, friendships>>

GetRequests(myId) ==
    /\ UNCHANGED clock
    /\ resp' = Response("requests", myId, <<>>, 200, "", listRequests(users, friendships, myId))
    /\ UNCHANGED <<users, friendships>>

(***************************************************************************)
(* GET /api/partners/find-partner                                          *)
(***************************************************************************)
\* hay.includes(needle)
includes(hay, needle) ==
    \E i \in 0..(Len(hay) - Len(needle)) :
        SubSeq(hay, i + 1, i + Len(needle)) = needle

\* the test that sees the caller's own requests alone
hasRelationship_OutgoingOnly(fs, myId, otherId) ==
    \E i \in 1..Len(fs) :
        fs[i].requesterId = myId /\ fs[i].addresseeId = otherId

hasRelationship(fs, myId, otherId) ==
    \E i \in 1..Len(fs) :
        \/ fs[i].userAId = myId /\ fs[i].userBId = otherId
        \/ fs[i].userAId = otherId /\ fs[i].userBId = myId
        \/ fs[i].requesterId = myId /\ fs[i].addresseeId = otherId
        \/ fs[i].requesterId = otherId /\ fs[i].addresseeId = myId

\* the list without the slice
Take_Whole(xs, n) == xs

\* users.slice(0, n)
Take(xs, n) == SubSeq(xs, 1, IF Len(xs) < n THEN Len(xs) ELSE n)

\* the size of a result page: users.slice(0, 50)
PageSize == 50

\* `${u.username ?? ""} ${u.fullName ?? ""} ${u.email ?? ""}`.toLowerCase()
Haystack(u) == toLowerCase(u.username \o <<32>> \o u.fullName \o <<32>> \o u.email)

findPartner(us, fs, myId, rawQ, rawSkill, rawLocation) ==
    LET q == toLowerCase(Trim(rawQ))
        skill == toLowerCase(Trim(rawSkill))
        location == toLowerCase(Trim(rawLocation))
        notMe == SelectSeq(us, LAMBDA u : u.id # myId)
        unrelated == SelectSeq(notMe, LAMBDA u : ~hasRelationship(fs, myId, u.id))
        byQ == IF q # <<>>
               THEN SelectSeq(unrelated, LAMBDA u : includes(Haystack(u), q))
               ELSE unrelated
        bySkill == IF skill # <<>>
                   THEN SelectSeq(byQ, LAMBDA u :
                            includes(toLowerCase(OrElse(u.skill, <<>>)), skill))
                   ELSE byQ
        byLocation == IF location # <<>>
                      THEN SelectSeq(bySkill, LAMBDA u :
                               includes(toLowerCase(OrElse(u.location, <<>>)), location))
                      ELSE bySkill
        page == Take(byLocation, PageSize)
    IN  [i \in 1..Len(page) |-> publicUser(page[i])]

GetFindPartner(myId, rawQ, rawSkill, rawLocation) ==
    /\ UNCHANGED clock
    /\ resp' = Response("find-partner", myId, <<rawQ, rawSkill, rawLocation>>, 200, "",
                        findPartner(users, friendships, myId, rawQ, rawSkill, rawLocation))
    /\ UNCHANGED <<users, friendships>>

(***************************************************************************)
(* The backend, one request at a time.  The store starts with two          *)
(* registered users, "ann" (id "b0") and "Bob" (id "a1"); a third may      *)
(* register at any time.                                                   *)
(***************************************************************************)
RegisteredUser(uuid, fullName, username, email) ==
    [id |-> uuid, email |-> email, username |-> username, fullName |-> fullName,
     skill |-> NULL, location |-> NULL]

InitBackend ==
    /\ users = << RegisteredUser(<<98, 48>>, <<65, 110, 110>>, <<97, 110, 110>>, <<97, 64, 120>>),
                  RegisteredUser(<<97, 49>>, <<66, 111, 98>>, <<66, 111, 98>>, <<98, 64, 120>>) >>
    /\ friendships = <<>>
    /\ clock = 1
    /\ resp = NoResponse

\* The server is between two requests.
Idle == resp.op = "none"

DoRegister ==
    \E form \in RegForms, uuid \in IdPool \ UserIds :
        Idle /\ Register(form, uuid) /\ UNCHANGED <<liveVars, chatVars, pollVars, raceVars>>

\* router.post("/request", requireAuth, ...)
RequestCall(cookie, raw, now) ==
    LET auth == requireAuth(users, cookie)
    IN  /\ Idle
        /\ now >= clock
        /\ IF auth = NULL THEN Unauthorized
           ELSE PostRequest(auth[1].id, raw, now)
        /\ UNCHANGED <<liveVars, chatVars, pollVars, raceVars>>

\* router.post("/accept", requireAuth, ...)
AcceptCall(cookie, raw, now) ==
    LET auth == requireAuth(users, cookie)
    IN  /\ Idle
        /\ now >= clock
        /\ IF auth = NULL THEN Unauthorized
           ELSE PostAccept(auth[1].id, raw, now)
        /\ UNCHANGED <<liveVars, chatVars, pollVars, raceVars>>

\* router.get("/", requireAuth, ...)
FriendsCall(cookie) ==
    LET auth == requireAuth(users, cookie)
    IN  /\ Idle
        /\ IF auth = NULL THEN Unauthorized
           ELSE GetFriends(auth[1].id)
        /\ UNCHANGED <<liveVars, chatVars, pollVars, raceVars>>

\* router.get("/requests", requireAuth, ...)
RequestsCall(cookie) ==
    LET auth == requireAuth(users, cookie)
    IN  /\ Idle
        /\ IF auth = NULL THEN Unauthorized
           ELSE GetRequests(auth[1].id)
        /\ UNCHANGED <<liveVars, chatVars, pollVars, raceVars>>

\* router.get("/find-partner", requireAuth, ...)
FindPartnerCall(cookie, query) ==
    LET auth == requireAuth(users, cookie)
    IN  /\ Idle
        /\ IF auth = NULL THEN Unauthorized
           ELSE GetFindPartner(auth[1].id, query.q, query.skill, query.location)
        /\ UNCHANGED <<liveVars, chatVars, pollVars, raceVars>>

DoRequest ==
    \E cookie \in Cookies(users), raw \in UserIdInputs, now \in Nows :
        RequestCall(cookie, raw, now)

DoAccept ==
    \E cookie \in Cookies(users), raw \in UserIdInputs, now \in Nows :
        AcceptCall(cookie, raw, now)

DoGetFriends ==
    \E cookie \in Cookies(users) : FriendsCall(cookie)

DoGetRequests ==
    \E cookie \in Cookies(users) : RequestsCall(cookie)

DoFindPartner ==
    \E cookie \in Cookies(users), query \in QueryInputs :
        FindPartnerCall(cookie, query)

\* The response reaches its client; the server takes the next request.
Deliver ==
    /\ ~Idle
    /\ resp' = NoResponse
    /\ UNCHANGED <<users, friendships, clock>>
    /\ UNCHANGED <<liveVars, chatVars, pollVars, raceVars>>

(***************************************************************************)
(* GET /api/stream/token of the Next.js server: the chat token and the     *)
(* direct-message channel.                                                 *)
(***************************************************************************)
\* coerceString: the string, unless it is blank
coerceString(value) == IF Trim(value) # <<>> THEN Some(value) ELSE NULL

\* The partnerId parameters of the query string ("": absent).
PartnerInputs == UserIdInputs

\* How a call of the backend can go wrong: not at all, an answer that is not
\* ok, or no answer (fetch rejects).
Faults == { "none", "status", "network" }

\* relationshipStatus of the backend: none, pending or accepted
relationshipStatus(fs, a, b) ==
    LET at == findByKey(fs, friendshipKey(a, b))
    IN  IF at = 0 THEN "none" ELSE fs[at].status

HttpAnswer(code, canMessage) == [kind |-> "http", code |-> code, canMessage |-> canMessage]

NoAnswer == [kind |-> "network", code |-> 0, canMessage |-> FALSE]

\* What fetchBackendFriendStatus can resolve to: the backend's answer for the
\* pair, a 401, a 404, a 500, or a rejection.
StatusAnswers(fs, userId, partnerId) ==
    { HttpAnswer(200, relationshipStatus(fs, userId, partnerId) = "accepted"),
      HttpAnswer(401, FALSE), HttpAnswer(404, FALSE), HttpAnswer(500, FALSE),
      NoAnswer }

\* members.slice().sort().join("__")
channelIdOf(userId, partnerId) ==
    SortPair(userId, partnerId)[1] \o KeySeparator \o SortPair(userId, partnerId)[2]

\* the checks without the one of canMessage
statusGate_NoCanMessage(answer) ==
    IF answer.kind = "network" THEN 500
    ELSE IF answer.code = 401 THEN 401
    ELSE IF answer.code \notin 200..299 THEN 502
    ELSE 0

\* The status the route returns early with after the status check, or 0 to
\* go on; a rejected fetch is not caught, and the framework answers 500.
statusGate(answer) ==
    IF answer.kind = "network" THEN 500
    ELSE IF answer.code = 401 THEN 401
    ELSE IF answer.code \notin 200..299 THEN 502
    ELSE IF ~answer.canMessage THEN 403
    ELSE 0

\* The answer of the route, with the partnerId it was called with and the
\* answer its status check got (NULL: the route made no status check).
TokenResponse(code, token, channelId, partnerId, check) ==
    [code |-> code, token |-> token, channelId |-> channelId,
     partnerId |-> partnerId, check |-> check]

\* GET: the answer, and the channels and users at Stream after it
TokenOutcome(us, chans, sus, cookie, rawPartner, keys, meFault, answer, createOk) ==
    LET partnerId == coerceString(rawPartner)
        me == requireAuth(us, cookie)
        Early(code, check) ==
            [resp |-> TokenResponse(code, NULL, NULL, partnerId, check),
             channels |-> chans, streamUsers |-> sus]
    IN  IF ~keys THEN Early(500, NULL)
        ELSE IF meFault = "network" THEN Early(500, NULL)
        ELSE IF meFault = "none" /\ me = NULL THEN Early(401, NULL)
        ELSE IF meFault = "status" THEN Early(502, NULL)
        ELSE LET userId == me[1].id
             IN  IF partnerId # NULL
                 THEN IF statusGate(answer) # 0
                      THEN Early(statusGate(answer), Some(answer))
                      ELSE LET channelId == channelIdOf(userId, partnerId[1])
                           IN  [resp |-> TokenResponse(200, Some(userId), Some(channelId),
                                                       partnerId, Some(answer)),
                                streamUsers |-> sus \cup {userId, partnerId[1]},
                                channels |->
                                    IF createOk
                                    THEN chans \cup {[id |-> channelId,
                                                      members |-> {userId, partnerId[1]}]}
                                    ELSE chans]
                 ELSE [resp |-> TokenResponse(200, Some(userId), NULL, NULL, NULL),
                       streamUsers |-> sus \cup {userId},
                       channels |-> chans]

InitChat ==
    /\ channels = {}
    /\ streamUsers = {}
    /\ tokenResp = TokenResponse(0, NULL, NULL, NULL, NULL)

TokenCall(cookie, rawPartner, keys, meFault, answer, createOk) ==
    LET out == TokenOutcome(users, channels, streamUsers, cookie, rawPartner,
                            keys, meFault, answer, createOk)
    IN  /\ Idle
        /\ tokenResp' = out.resp
        /\ channels' = out.channels
        /\ streamUsers' = out.streamUsers
        /\ UNCHANGED <<backendVars, liveVars, pollVars, raceVars>>

\* A call of the route.  The status check, when the route gets to it, is
\* answered for the caller and the partnerId as given.
DoToken ==
    \E cookie \in Cookies(users), rawPartner \in PartnerInputs :
        LET me == requireAuth(users, cookie)
        IN  \/ \E keys \in BOOLEAN, meFault \in Faults :
                /\ ~keys \/ meFault # "none" \/ me = NULL
                /\ TokenCall(cookie, rawPartner, keys, meFault, NoAnswer, TRUE)
            \/ /\ me # NULL
               /\ coerceString(rawPartner) = NULL
               /\ TokenCall(cookie, rawPartner, TRUE, "none", NoAnswer, TRUE)
            \/ /\ me # NULL
               /\ coerceString(rawPartner) # NULL
               /\ \E answer \in StatusAnswers(friendships, me[1].id, rawPartner),
                     createOk \in BOOLEAN :
                        TokenCall(cookie, rawPartner, TRUE, "none", answer, createOk)

(***************************************************************************)
(* LivePlayersMap: the live-location uplink.                               *)
(***************************************************************************)
MAX_ACCEPTABLE_ACCURACY_M == 1500

\* the minimum gap of scheduleFlush
ThrottleMs == 1200

TickMs == ThrottleMs \div TicksPerGap

Min(a, b) == IF a < b THEN a ELSE b

Max(a, b) == IF a > b THEN a ELSE b

clamp(n, lo, hi) == Min(hi, Max(lo, n))

\* The GeolocationPosition objects the device reports: a fix at the accuracy
\* threshold with out-of-range coordinates and a heading, and a coarse fix.
\* (The latitude, the longitude and the accuracy of a GeolocationCoordinates
\* are finite numbers; heading and speed may be null.)
Readings == {
    [latitude |-> Some(95), longitude |-> Some(190), accuracy |-> Some(1500), heading |-> Some(90), speed |-> NULL],
    [latitude |-> Some(45), longitude |-> Some(7),   accuracy |-> Some(2000), heading |-> NULL,     speed |-> NULL] }

\* the gate that also rejects a fix at the threshold
TooCoarse_AtThreshold(accuracy) ==
    accuracy # NULL /\ accuracy[1] >= MAX_ACCEPTABLE_ACCURACY_M

\* accuracy != null && Number.isFinite(accuracy) && accuracy > MAX_ACCEPTABLE_ACCURACY_M
TooCoarse(accuracy) ==
    accuracy # NULL /\ accuracy[1] > MAX_ACCEPTABLE_ACCURACY_M

\* A state setter of a component that is no longer mounted changes nothing.
SetState(old, new) == IF comp = "mounted" THEN new ELSE old

\* flushQueued without the test of inFlightRef
FlushQueued_NoInFlightGuard(inFlight, queued) ==
    IF ~configured THEN [sent |-> NULL, inFlight |-> inFlight, queued |-> queued]
    ELSE IF queued = NULL THEN [sent |-> NULL, inFlight |-> inFlight, queued |-> NULL]
    ELSE [sent |-> queued, inFlight |-> TRUE, queued |-> NULL]

\* flushQueued, up to the start of the request: what is sent, and the refs
FlushQueued(inFlight, queued) ==
    IF ~configured THEN [sent |-> NULL, inFlight |-> inFlight, queued |-> queued]
    ELSE IF inFlight THEN [sent |-> NULL, inFlight |-> inFlight, queued |-> queued]
    ELSE IF queued = NULL THEN [sent |-> NULL, inFlight |-> inFlight, queued |-> NULL]
    ELSE [sent |-> queued, inFlight |-> TRUE, queued |-> NULL]

\* a finally block that leaves the queue alone
Drain_Never(queued) == [sent |-> NULL, inFlight |-> FALSE, queued |-> queued]

\* the finally block of flushQueued: inFlightRef.current = false, and
\* flushQueued again when a fix is queued
Drain(queued) ==
    IF queued # NULL THEN FlushQueued(FALSE, queued)
    ELSE [sent |-> NULL, inFlight |-> FALSE, queued |-> queued]

\* a queue that keeps the fix it holds
superseding_KeepOld(queued, payload) == IF queued # NULL THEN queued ELSE Some(payload)

\* queuedPayloadRef.current = payload
superseding(queued, payload) == Some(payload)

\* The observer's record after flushQueued sent `sent` (NULL: nothing).
ObserveSend(o, sent) ==
    IF sent = NULL THEN o
    ELSE [o EXCEPT !.sincePut = 0, !.sentMax = Max(@, sent[1].at)]

\* The request fetch(..., {method: "PUT"}) of flushQueued starts: its body,
\* whether time has passed since it started, and what the observer notes of
\* its start: less than ThrottleMs after the previous PUT of the session
\* (early), after sharing was left (late).
NewPut(body) ==
    [body |-> body, aged |-> FALSE,
     early |-> obs.sincePut < ThrottleMs, late |-> obs.phase = "left"]

StartPut(sent) ==
    IF sent = NULL THEN puts ELSE puts \cup {NewPut(sent[1])}

\* scheduleFlush
scheduleFlush ==
    IF throttleTimerRef
    THEN UNCHANGED <<throttleTimerRef, timer>>
    ELSE LET elapsed == sinceSent
             delay == IF elapsed < ThrottleMs THEN ThrottleMs - elapsed ELSE 0
         IN  /\ throttleTimerRef' = TRUE
             /\ timer' = Some(delay)

\* handlePosition
handlePosition(pos) ==
    IF pos.latitude = NULL \/ pos.longitude = NULL
    THEN UNCHANGED <<deviceFix, gpsWarning, queuedPayloadRef, throttleTimerRef, timer>>
    ELSE LET fix == [lat |-> clamp(pos.latitude[1], -90, 90),
                     lng |-> clamp(pos.longitude[1], -180, 180),
                     accuracy |-> pos.accuracy,
                     at |-> obs.fixes + 1]
         IN  /\ deviceFix' = SetState(deviceFix, Some(fix))
             /\ IF TooCoarse(fix.accuracy)
                THEN /\ gpsWarning' = SetState(gpsWarning, TRUE)
                     /\ UNCHANGED <<queuedPayloadRef, throttleTimerRef, timer>>
                ELSE /\ gpsWarning' = SetState(gpsWarning, FALSE)
                     \* sendLiveLocation
                     /\ IF ~configured
                        THEN UNCHANGED <<queuedPayloadRef, throttleTimerRef, timer>>
                        ELSE /\ queuedPayloadRef' =
                                    superseding(queuedPayloadRef,
                                         [lat |-> fix.lat, lng |-> fix.lng,
                                          accuracy |-> fix.accuracy,
                                          heading |-> pos.heading, speed |-> pos.speed,
                                          at |-> fix.at])
                             /\ scheduleFlush

\* what the observer notes when the device hands over a reading
ObserveReading(o, pos) ==
    [o EXCEPT !.fixes = @ + 1,
              !.goodMax =
                    IF pos.accuracy # NULL /\ pos.accuracy[1] <= MAX_ACCEPTABLE_ACCURACY_M
                    THEN o.fixes + 1 ELSE @]

(***************************************************************************)
(* LivePlayersMap: the poll of the live locations.  A prop of type number  *)
(* is a finite double, NaN, Infinity or -Infinity; a finite pollSeconds is *)
(* held in units of 0.1 ms, a number of milliseconds in units of 1 ms.     *)
(***************************************************************************)
Finite(v) == [kind |-> "finite", v |-> v]

NaN == [kind |-> "NaN", v |-> 0]

PosInfinity == [kind |-> "Infinity", v |-> 0]

NegInfinity == [kind |-> "-Infinity", v |-> 0]

\* the default of the prop: pollSeconds = 3
DefaultPollSeconds == Finite(30000)

\* The values of pollSeconds: 3, 0, -1, 0.0004, 0.9994, 0.9996, 1, 7.5,
\* 15, 15.0004, 15.0006, 20, and the doubles that are not finite.
PollInputs ==
    { Finite(v) : v \in { 30000, 0, -10000, 4, 9994, 9996, 10000, 75000,
                          150000, 150004, 150006, 200000 } }
        \cup { NaN, PosInfinity, NegInfinity }

\* Math.round(pollSeconds * 1000): the nearest integer, a half going up
MilliRound(x) ==
    IF x.kind = "finite" THEN Finite((x.v + 5) \div 10) ELSE x

\* Math.max on doubles
MathMax(a, b) ==
    IF a.kind = "NaN" \/ b.kind = "NaN" THEN NaN
    ELSE IF a.kind = "Infinity" \/ b.kind = "Infinity" THEN PosInfinity
    ELSE IF a.kind = "-Infinity" THEN b
    ELSE IF b.kind = "-Infinity" THEN a
    ELSE Finite(Max(a.v, b.v))

\* Math.min on doubles
MathMin(a, b) ==
    IF a.kind = "NaN" \/ b.kind = "NaN" THEN NaN
    ELSE IF a.kind = "-Infinity" \/ b.kind = "-Infinity" THEN NegInfinity
    ELSE IF a.kind = "Infinity" THEN b
    ELSE IF b.kind = "Infinity" THEN a
    ELSE Finite(Min(a.v, b.v))

\* clamp, on doubles: Math.min(max, Math.max(min, n))
clampDouble(n, min, max) == MathMin(max, MathMax(min, n))

\* const pollMs = clamp(Math.round(pollSeconds * 1000), 1000, 15_000)
pollMs(seconds) == clampDouble(MilliRound(seconds), Finite(1000), Finite(15000))

\* The period window.setInterval runs with: its timeout argument converted
\* to a long, which takes a double that is not finite to 0.
IntervalPeriod(ms) == IF ms.kind = "finite" THEN ms.v ELSE 0

InitPoll ==
    /\ pollTimer = NULL
    /\ stale = 0
    /\ locations = "none"

InitLive ==
    /\ comp = "unrendered"
    /\ configured = FALSE
    /\ sharing = FALSE
    /\ error = "none"
    /\ gpsWarning = FALSE
    /\ deviceFix = NULL
    /\ watchIdRef = FALSE
    /\ inFlightRef = FALSE
    /\ queuedPayloadRef = NULL
    /\ throttleTimerRef = FALSE
    /\ unmountedRef = FALSE
    /\ sinceSent = ThrottleMs
    /\ timer = NULL
    /\ watches = 0
    /\ oneShots = 0
    /\ puts = {}
    /\ fetches = 0
    /\ deletes = 0
    /\ InitPoll
    /\ obs = [phase |-> "idle", fixes |-> 0, goodMax |-> 0, sentMax |-> 0,
              sincePut |-> ThrottleMs]

\* The events page renders the component, with or without a backend URL.
Mount ==
    /\ comp = "unrendered"
    /\ comp' = "mounted"
    /\ configured' \in BOOLEAN
    /\ unmountedRef' = FALSE
    \* the poll effect: fetchLiveLocations, then setInterval
    /\ fetches' = IF configured' THEN fetches + 1 ELSE fetches
    /\ pollTimer' = IF configured' THEN Some(IntervalPeriod(pollMs(pollSeconds))) ELSE NULL
    /\ UNCHANGED <<sharing, error, gpsWarning, deviceFix, watchIdRef, inFlightRef,
                   queuedPayloadRef, throttleTimerRef, sinceSent, timer, watches,
                   oneShots, puts, deletes, obs>>
    /\ UNCHANGED <<pollSeconds, stale, locations>>
    /\ UNCHANGED <<backendVars, chatVars, raceVars>>

\* startSharing: the button, while not sharing
StartSharing ==
    /\ comp = "mounted"
    /\ ~sharing
    /\ oneShots < MaxOneShots
    /\ deletes < MaxDeletes
    /\ IF ~configured
       THEN /\ error' = "config"
            /\ gpsWarning' = FALSE
            /\ UNCHANGED <<sharing, watchIdRef, watches, oneShots, obs>>
       ELSE /\ error' = "none"
            /\ gpsWarning' = FALSE
            /\ watches' = (IF watchIdRef THEN watches - 1 ELSE watches) + 1
            /\ oneShots' = oneShots + 1
            /\ watchIdRef' = TRUE
            /\ sharing' = TRUE
            /\ obs' = [obs EXCEPT !.phase = "sharing", !.sincePut = ThrottleMs]
    /\ UNCHANGED <<comp, configured, deviceFix, inFlightRef, queuedPayloadRef,
                   throttleTimerRef, unmountedRef, sinceSent, timer, puts,
                   fetches, deletes>>
    /\ UNCHANGED <<backendVars, chatVars, pollVars, raceVars>>

\* stopSharing without clearWatch
stopSharing_KeepWatch ==
    /\ UNCHANGED <<watches, watchIdRef>>
    /\ sharing' = SetState(sharing, FALSE)
    /\ gpsWarning' = SetState(gpsWarning, FALSE)
    /\ deletes' = IF configured THEN deletes + 1 ELSE deletes
    /\ obs' = [obs EXCEPT !.phase = IF @ = "sharing" THEN "left" ELSE @]

\* stopSharing, up to its await: the watch, the state, the DELETE, and what
\* the observer notes
stopSharing ==
    /\ watches' = IF watchIdRef THEN watches - 1 ELSE watches
    /\ watchIdRef' = FALSE
    /\ sharing' = SetState(sharing, FALSE)
    /\ gpsWarning' = SetState(gpsWarning, FALSE)
    /\ deletes' = IF configured THEN deletes + 1 ELSE deletes
    /\ obs' = [obs EXCEPT !.phase = IF @ = "sharing" THEN "left" ELSE @]

\* the button, while sharing
StopSharing ==
    /\ comp = "mounted"
    /\ sharing
    /\ stopSharing
    /\ UNCHANGED <<comp, configured, error, deviceFix, inFlightRef, queuedPayloadRef,
                   throttleTimerRef, unmountedRef, sinceSent, timer, oneShots, puts,
                   fetches>>
    /\ UNCHANGED <<backendVars, chatVars, pollVars, raceVars>>

\* the error callback of watchPosition
WatchError ==
    /\ watches > 0
    /\ error' = SetState(error, "watch")
    /\ stopSharing
    /\ UNCHANGED <<comp, configured, deviceFix, inFlightRef, queuedPayloadRef,
                   throttleTimerRef, unmountedRef, sinceSent, timer, oneShots, puts,
                   fetches>>
    /\ UNCHANGED <<backendVars, chatVars, pollVars, raceVars>>

\* the success callback of watchPosition
WatchFix ==
    \E pos \in Readings :
        /\ watches > 0
        /\ obs.fixes < MaxFixes
        /\ handlePosition(pos)
        /\ obs' = ObserveReading(obs, pos)
        /\ UNCHANGED <<comp, configured, sharing, error, watchIdRef, inFlightRef,
                       unmountedRef, sinceSent, watches, oneShots, puts, fetches,
                       deletes>>
        /\ UNCHANGED <<backendVars, chatVars, pollVars, raceVars>>

\* getCurrentPosition answers: with a position, or with an error that is ignored
OneShotFix ==
    \E pos \in Readings :
        /\ oneShots > 0
        /\ obs.fixes < MaxFixes
        /\ oneShots' = oneShots - 1
        /\ handlePosition(pos)
        /\ obs' = ObserveReading(obs, pos)
        /\ UNCHANGED <<comp, configured, sharing, error, watchIdRef, inFlightRef,
                       unmountedRef, sinceSent, watches, puts, fetches, deletes>>
        /\ UNCHANGED <<backendVars, chatVars, pollVars, raceVars>>

OneShotError ==
    /\ oneShots > 0
    /\ oneShots' = oneShots - 1
    /\ UNCHANGED <<comp, configured, sharing, error, gpsWarning, deviceFix, watchIdRef,
                   inFlightRef, queuedPayloadRef, throttleTimerRef, unmountedRef,
                   sinceSent, timer, watches, puts, fetches, deletes, obs>>
    /\ UNCHANGED <<backendVars, chatVars, pollVars, raceVars>>

\* the callback of window.setTimeout in scheduleFlush
TimerFire ==
    /\ timer # NULL
    /\ timer[1] = 0
    /\ timer' = NULL
    /\ throttleTimerRef' = FALSE
    /\ LET f == IF unmountedRef
                THEN [sent |-> NULL, inFlight |-> inFlightRef, queued |-> queuedPayloadRef]
                ELSE FlushQueued(inFlightRef, queuedPayloadRef)
       IN  /\ inFlightRef' = f.inFlight
           /\ queuedPayloadRef' = f.queued
           /\ puts' = StartPut(f.sent)
           /\ obs' = ObserveSend(obs, f.sent)
    /\ UNCHANGED <<comp, configured, sharing, error, gpsWarning, deviceFix, watchIdRef,
                   unmountedRef, sinceSent, watches, oneShots, fetches, deletes>>
    /\ UNCHANGED <<backendVars, chatVars, pollVars, raceVars>>

\* the PUT `req` of flushQueued completes: res.ok, or a failure (network,
\* status); after a success the locations are fetched again
PutDone(req, ok) ==
    /\ req \in puts
    /\ req.aged
    /\ sinceSent' = IF ok THEN 0 ELSE sinceSent
    /\ fetches' = IF ok /\ configured THEN fetches + 1 ELSE fetches
    /\ error' = IF ok THEN error ELSE SetState(error, "put")
    /\ LET f == Drain(queuedPayloadRef)
       IN  /\ inFlightRef' = f.inFlight
           /\ queuedPayloadRef' = f.queued
           /\ puts' = StartPut(f.sent) \ {req}
           /\ obs' = ObserveSend(obs, f.sent)
    /\ UNCHANGED <<comp, configured, sharing, gpsWarning, deviceFix, watchIdRef,
                   throttleTimerRef, unmountedRef, timer, watches, oneShots, deletes>>
    /\ UNCHANGED <<backendVars, chatVars, pollVars, raceVars>>

PutComplete == \E req \in puts, ok \in BOOLEAN : PutDone(req, ok)

\* the callback of window.setInterval in the poll effect
PollTick ==
    /\ pollTimer # NULL
    /\ fetches < MaxFetches
    /\ fetches' = fetches + 1
    /\ UNCHANGED <<comp, configured, sharing, error, gpsWarning, deviceFix, watchIdRef,
                   inFlightRef, queuedPayloadRef, throttleTimerRef, unmountedRef,
                   sinceSent, timer, watches, oneShots, puts, deletes, obs>>
    /\ UNCHANGED <<pollSeconds, pollTimer, stale, locations>>
    /\ UNCHANGED <<backendVars, chatVars, raceVars>>

\* setError of fetchLiveLocations, after a request that failed
FetchFailed == error' = SetState(error, "load") /\ UNCHANGED locations

\* A GET of fetchLiveLocations completes.  A failure shows as the error
\* message.  A response is shown, whichever request it answers: the k-th
\* oldest of those no later response has overtaken (the older ones of them
\* are overtaken now), or one that a later response has overtaken already.
FetchComplete ==
    \E ok \in BOOLEAN :
        /\ fetches > 0
        /\ fetches' = fetches - 1
        /\ \/ /\ stale > 0
              /\ stale' = stale - 1
              /\ IF ok
                 THEN locations' = SetState(locations, "older") /\ UNCHANGED error
                 ELSE FetchFailed
           \/ \E k \in 1..(fetches - stale) :
                    IF ok
                    THEN /\ stale' = stale + (k - 1)
                         /\ locations' = SetState(locations, "latest")
                         /\ UNCHANGED error
                    ELSE /\ k = 1
                         /\ UNCHANGED stale
                         /\ FetchFailed
        /\ UNCHANGED <<comp, configured, sharing, gpsWarning, deviceFix, watchIdRef,
                       inFlightRef, queuedPayloadRef, throttleTimerRef, unmountedRef,
                       sinceSent, timer, watches, oneShots, puts, deletes, obs>>
        /\ UNCHANGED <<pollSeconds, pollTimer>>
        /\ UNCHANGED <<backendVars, chatVars, raceVars>>

\* the DELETE of stopSharing completes, or fails: the catch block is empty
DeleteComplete ==
    \E ok \in BOOLEAN :
        /\ deletes > 0
        /\ deletes' = deletes - 1
        /\ UNCHANGED <<comp, configured, sharing, error, gpsWarning, deviceFix,
                       watchIdRef, inFlightRef, queuedPayloadRef, throttleTimerRef,
                       unmountedRef, sinceSent, timer, watches, oneShots, puts,
                       fetches, obs>>
        /\ UNCHANGED <<backendVars, chatVars, pollVars, raceVars>>

\* the cleanup of the mount effect: clearTimeout, then stopSharing
Unmount ==
    /\ comp = "mounted"
    /\ comp' = "unmounted"
    /\ unmountedRef' = TRUE
    /\ timer' = NULL
    /\ watches' = IF watchIdRef THEN watches - 1 ELSE watches
    /\ watchIdRef' = FALSE
    /\ deletes' = IF configured THEN deletes + 1 ELSE deletes
    /\ obs' = [obs EXCEPT !.phase = IF @ = "sharing" THEN "left" ELSE @]
    \* the cleanup of the poll effect: clearInterval
    /\ pollTimer' = NULL
    /\ UNCHANGED <<configured, sharing, error, gpsWarning, deviceFix, inFlightRef,
                   queuedPayloadRef, throttleTimerRef, sinceSent, oneShots, puts,
                   fetches>>
    /\ UNCHANGED <<pollSeconds, stale, locations>>
    /\ UNCHANGED <<backendVars, chatVars, raceVars>>

\* TickMs pass
Tick ==
    /\ comp # "unrendered"
    /\ sinceSent' = Min(ThrottleMs, sinceSent + TickMs)
    /\ timer' = IF timer = NULL THEN NULL ELSE Some(Max(0, timer[1] - TickMs))
    /\ puts' = { [r EXCEPT !.aged = TRUE] : r \in puts }
    /\ obs' = [obs EXCEPT !.sincePut = Min(ThrottleMs, @ + TickMs)]
    /\ UNCHANGED <<comp, configured, sharing, error, gpsWarning, deviceFix, watchIdRef,
                   inFlightRef, queuedPayloadRef, throttleTimerRef, unmountedRef,
                   watches, oneShots, fetches, deletes>>
    /\ UNCHANGED <<backendVars, chatVars, pollVars, raceVars>>

(***************************************************************************)
(* The backend with handlers running concurrently.  A handler runs from    *)
(* one await to the next without interruption.  db.read() reads the file   *)
(* at some time after the call and, when its promise resolves, replaces    *)
(* db.data by what it read; db.write() serialises db.data when it is       *)
(* called; one write to the file is under way at a time, and of the calls  *)
(* made meanwhile the file takes the dataset of the last one, which        *)
(* resolves them all.  In the specifications that handle one request at a  *)
(* time, db.data is the store between any two requests and stays out of    *)
(* the picture.                                                            *)
(***************************************************************************)
Procs == 1..MaxHandlers

Dataset(us, fs) == [users |-> us, friendships |-> fs]

NoForm == [fullName |-> <<>>, username |-> <<>>, email |-> <<>>]

\* The requests that race: each of "b0" and "a1" asks the other, each
\* accepts the other, and "Cy" registers.
RaceRequests ==
    { [kind |-> k, cookie |-> TokenFor(c[1]), raw |-> c[2], form |-> NoForm] :
        k \in {"request", "accept"},
        c \in { << <<98, 48>>, <<97, 49>> >>, << <<97, 49>>, <<98, 48>> >> } }
    \cup { [kind |-> "register", cookie |-> NoCookie, raw |-> <<>>,
            form |-> [fullName |-> <<67, 121>>, username |-> <<99, 121>>,
                      email |-> <<67, 64, 120>>]] }

\* randomUUID() of the handler p: "c1", "c2", ...
RaceUuid(p) == <<99, 48 + p>>

NoAck == [kind |-> "none", key |-> <<>>]

\* A handler that is not running: its request, the await it is at, what its
\* db.read() has read, req.user.id, and its response with the change to the
\* store that the response acknowledges.
IdleHandler ==
    [pc |-> "idle", req |-> [kind |-> "none", cookie |-> NoCookie, raw |-> <<>>, form |-> NoForm],
     snap |-> NULL, myId |-> <<>>, code |-> 0, ack |-> NoAck]

InitRace ==
    /\ data = Dataset(users, friendships)
    /\ handlers = [p \in Procs |-> IdleHandler]
    /\ writes = <<>>

\* the file after a write that adds the dataset to what the file holds
dbWrite_Append(stored, written) ==
    Dataset(stored.users \o written.users, stored.friendships \o written.friendships)

\* adapter.write(data): the dataset replaces the contents of the file
dbWrite(stored, written) == written

\* db.write() by the handler p: the dataset is serialised; the write starts
\* if none is under way, and otherwise takes the place of the one waiting.
CallWrite(ws, p, d) ==
    IF Len(ws) < 2
    THEN Append(ws, [by |-> {p}, data |-> d])
    ELSE <<ws[1], [by |-> ws[2].by \cup {p}, data |-> d]>>

\* res.status(code).json(...): the handler is done
Respond(h, code, ack) == [h EXCEPT !.pc = "done", !.code = code, !.ack = ack, !.snap = NULL]

\* await db.read(): the handler waits, the file not yet read
AwaitRead(h, pc) == [h EXCEPT !.pc = pc, !.snap = NULL]

\* A request arrives.  register answers 400 or calls db.read(); the friends
\* routes run requireAuth, which answers 401 or calls db.read().
StartHandler(p, r) ==
    /\ handlers[p].pc = "idle"
    /\ LET h == [handlers[p] EXCEPT !.req = r]
       IN  handlers' = [handlers EXCEPT ![p] =
                IF r.kind = "register"
                THEN IF r.form.fullName = <<>> \/ r.form.username = <<>> \/ r.form.email = <<>>
                     THEN Respond(h, 400, NoAck)
                     ELSE AwaitRead(h, "body")
                ELSE IF r.cookie = NULL \/ ~r.cookie[1].valid \/ r.cookie[1].userId = <<>>
                     THEN Respond(h, 401, NoAck)
                     ELSE AwaitRead(h, "auth")]
    /\ UNCHANGED <<users, friendships, clock, resp, data, writes>>
    /\ UNCHANGED <<liveVars, chatVars, pollVars>>

\* adapter.read() of a db.read() under way reads the file
ReadFile(p) ==
    /\ handlers[p].pc \in {"auth", "body"}
    /\ handlers[p].snap = NULL
    /\ handlers' = [handlers EXCEPT ![p].snap = Some(Dataset(users, friendships))]
    /\ UNCHANGED <<users, friendships, clock, resp, data, writes>>
    /\ UNCHANGED <<liveVars, chatVars, pollVars>>

\* The db.read() of requireAuth resolves: db.data is what was read; the user
\* of the token is looked up; the route handler starts and runs to its
\* db.read().
ResumeAuth(p) ==
    LET h == handlers[p]
        read == h.snap[1]
        auth == requireAuth(read.users, h.req.cookie)
        targetId == Trim(h.req.raw)
    IN  /\ h.pc = "auth"
        /\ h.snap # NULL
        /\ data' = read
        /\ handlers' = [handlers EXCEPT ![p] =
                IF auth = NULL THEN Respond(h, 401, NoAck)
                ELSE IF targetId = <<>> THEN Respond(h, 400, NoAck)
                ELSE IF h.req.kind = "request" /\ targetId = auth[1].id
                     THEN Respond(h, 400, NoAck)
                ELSE AwaitRead([h EXCEPT !.myId = auth[1].id], "body")]
        /\ UNCHANGED <<users, friendships, clock, resp, writes>>
        /\ UNCHANGED <<liveVars, chatVars, pollVars>>

\* The db.read() of a friends route resolves: db.data is what was read; the
\* handler runs on it up to its response or its db.write().
ResumeFriends(p, now) ==
    LET h == handlers[p]
        read == h.snap[1]
        out == IF h.req.kind = "request"
               THEN RequestOutcome(read.users, read.friendships, clock, h.myId, h.req.raw, now)
               ELSE AcceptOutcome(read.friendships, clock, h.myId, h.req.raw, now)
        key == friendshipKey(h.myId, Trim(h.req.raw))
        ack == [kind |-> IF out.code = 201 THEN "created" ELSE "accepted", key |-> key]
        after == Dataset(read.users, out.fs)
    IN  /\ h.pc = "body"
        /\ h.req.kind \in {"request", "accept"}
        /\ h.snap # NULL
        /\ now >= clock
        /\ clock' = out.clock
        /\ data' = after
        /\ IF out.fs # read.friendships
           THEN /\ writes' = CallWrite(writes, p, after)
                /\ handlers' = [handlers EXCEPT ![p] =
                        [h EXCEPT !.pc = "write", !.snap = NULL, !.code = out.code, !.ack = ack]]
           ELSE /\ UNCHANGED writes
                /\ handlers' = [handlers EXCEPT ![p] = Respond(h, out.code, NoAck)]
        /\ UNCHANGED <<users, friendships, resp>>
        /\ UNCHANGED <<liveVars, chatVars, pollVars>>

\* The db.read() of register resolves: db.data is what was read; the handler
\* tests email and username and calls bcrypt.hash.
ResumeRegister(p) ==
    LET h == handlers[p]
        read == h.snap[1]
    IN  /\ h.pc = "body"
        /\ h.req.kind = "register"
        /\ h.snap # NULL
        /\ data' = read
        /\ handlers' = [handlers EXCEPT ![p] =
                IF emailTaken(read.users, h.req.form.email)
                        \/ usernameTaken(read.users, h.req.form.username)
                THEN Respond(h, 409, NoAck)
                ELSE [h EXCEPT !.pc = "hash", !.snap = NULL]]
        /\ UNCHANGED <<users, friendships, clock, resp, writes>>
        /\ UNCHANGED <<liveVars, chatVars, pollVars>>

\* bcrypt.hash resolves: the user is pushed onto db.data as it is now, and
\* db.write() is called.
HashDone(p) ==
    LET h == handlers[p]
        user == RegisteredUser(RaceUuid(p), Trim(h.req.form.fullName),
                               Trim(h.req.form.username), Trim(h.req.form.email))
        after == Dataset(Append(data.users, user), data.friendships)
    IN  /\ h.pc = "hash"
        /\ data' = after
        /\ writes' = CallWrite(writes, p, after)
        /\ handlers' = [handlers EXCEPT ![p] =
                [h EXCEPT !.pc = "write", !.code = 201,
                          !.ack = [kind |-> "registered", key |-> RaceUuid(p)]]]
        /\ UNCHANGED <<users, friendships, clock, resp>>
        /\ UNCHANGED <<liveVars, chatVars, pollVars>>

\* The write under way reaches the file; the handlers waiting for it answer.
WriteLanded ==
    /\ writes # <<>>
    /\ LET w == Head(writes)
           stored == dbWrite(Dataset(users, friendships), w.data)
       IN  /\ users' = stored.users
           /\ friendships' = stored.friendships
           /\ handlers' = [q \in Procs |->
                    IF q \in w.by THEN [handlers[q] EXCEPT !.pc = "done"] ELSE handlers[q]]
    /\ writes' = Tail(writes)
    /\ UNCHANGED <<clock, resp, data>>
    /\ UNCHANGED <<liveVars, chatVars, pollVars>>

Arrive == \E p \in Procs, r \in RaceRequests : StartHandler(p, r)

Read == \E p \in Procs : ReadFile(p)

Resume ==
    \E p \in Procs :
        \/ ResumeAuth(p)
        \/ \E now \in Nows : ResumeFriends(p, now)
        \/ ResumeRegister(p)
        \/ HashDone(p)

Init == InitBackend /\ InitLive /\ InitChat /\ InitRace /\ pollSeconds = DefaultPollSeconds

\* The uplink and the ways out of sharing.  The GETs of fetchLiveLocations
\* are started here and answered in SpecPoll: their answers set locations
\* and the error message, which no step of the uplink reads.
NextLive ==
    \/ Mount
    \/ StartSharing
    \/ StopSharing
    \/ WatchError
    \/ WatchFix
    \/ OneShotFix
    \/ OneShotError
    \/ TimerFire
    \/ PutComplete
    \/ DeleteComplete
    \/ Unmount
    \/ Tick

SpecLive == Init /\ [][NextLive]_vars

\* Time passes, timeouts fire and requests complete.
SpecLiveFair ==
    /\ SpecLive
    /\ WF_vars(Tick)
    /\ WF_vars(TimerFire)
    /\ WF_vars(PutComplete)

\* The component with any pollSeconds, its interval poll firing and its GETs
\* answered in any order.
InitPollAny ==
    InitBackend /\ InitLive /\ InitChat /\ InitRace /\ pollSeconds \in PollInputs

NextPoll ==
    \/ Mount
    \/ StartSharing
    \/ StopSharing
    \/ WatchFix
    \/ TimerFire
    \/ PutComplete
    \/ Tick
    \/ PollTick
    \/ FetchComplete
    \/ Unmount

SpecPoll == InitPollAny /\ [][NextPoll]_vars

\* Registration into an empty store, as initDb leaves it, with emails that
\* differ in case and in surrounding white space: "a@x" (Ann), "A@X" (Bob),
\* " a@x" (Cy), "a@x " (Dee) and "b@x" (Eve).
EmailForms == {
    [fullName |-> <<65, 110, 110>>, username |-> <<97, 110, 110>>, email |-> <<97, 64, 120>>],
    [fullName |-> <<66, 111, 98>>, username |-> <<98, 111, 98>>, email |-> <<65, 64, 88>>],
    [fullName |-> <<67, 121>>, username |-> <<99, 121>>, email |-> <<32, 97, 64, 120>>],
    [fullName |-> <<68, 101, 101>>, username |-> <<100, 101, 101>>, email |-> <<97, 64, 120, 32>>],
    [fullName |-> <<69, 118, 101>>, username |-> <<101, 118, 101>>, email |-> <<98, 64, 120>>] }

DoRegisterEmail ==
    \E form \in EmailForms, uuid \in IdPool \ UserIds :
        Idle /\ Register(form, uuid) /\ UNCHANGED <<liveVars, chatVars, pollVars, raceVars>>

InitRegister ==
    /\ users = <<>>
    /\ friendships = <<>>
    /\ clock = 1
    /\ resp = NoResponse
    /\ InitLive
    /\ InitChat
    /\ InitRace
    /\ pollSeconds = DefaultPollSeconds

NextRegister ==
    \/ DoRegisterEmail
    \/ Deliver

SpecRegister == InitRegister /\ [][NextRegister]_vars

\* The store with or without the pending request of "b0" to "a1", and up to
\* MaxHandlers requests under way at a time.
InitRaceStore ==
    /\ users = << RegisteredUser(<<98, 48>>, <<65, 110, 110>>, <<97, 110, 110>>, <<97, 64, 120>>),
                  RegisteredUser(<<97, 49>>, <<66, 111, 98>>, <<66, 111, 98>>, <<98, 64, 120>>) >>
    /\ friendships \in { <<>>, << NewFriendship(<<98, 48>>, <<97, 49>>, 1) >> }
    /\ clock = 1
    /\ resp = NoResponse
    /\ InitLive
    /\ InitChat
    /\ InitRace
    /\ pollSeconds = DefaultPollSeconds

NextRace ==
    \/ Arrive
    \/ Read
    \/ Resume
    \/ WriteLanded

SpecRace == InitRaceStore /\ [][NextRace]_vars

NextFriends ==
    \/ DoRegister
    \/ DoRequest
    \/ DoAccept
    \/ DoGetFriends
    \/ DoGetRequests
    \/ DoFindPartner
    \/ Deliver

SpecFriends == Init /\ [][NextFriends]_vars

(***************************************************************************)
(* Partner discovery on a large store: the users "a1", "a2", ... in the    *)
(* order they registered, with one of three sets of relationship records.  *)
(***************************************************************************)
\* the i-th identifier: a letter a..f and a digit
StoreId(i) == <<97 + (i \div 10), 48 + (i % 10)>>

\* the i-th user: username "An<id>" or "bo<id>", fullName "P<id>", email
\* "<id>b@x" or "<id>@y"
StoreUser(i) ==
    RegisteredUser(StoreId(i),
                   <<80>> \o StoreId(i),
                   (IF i % 2 = 0 THEN <<65, 110>> ELSE <<98, 111>>) \o StoreId(i),
                   StoreId(i) \o (IF i % 3 = 0 THEN <<98, 64, 120>> ELSE <<64, 121>>))

Store(n) == [i \in 1..n |-> StoreUser(i)]

\* no record; a1's pending request to a2; a2's pending request to a1 and the
\* accepted request of a3 to a1
StoreRelations == {
    <<>>,
    << NewFriendship(StoreId(1), StoreId(2), 1) >>,
    << NewFriendship(StoreId(2), StoreId(1), 1),
       Accepted(NewFriendship(StoreId(3), StoreId(1), 1), 1) >> }

InitDiscovery ==
    /\ users \in { Store(n) : n \in (MaxStore - 3)..MaxStore }
    /\ friendships \in StoreRelations
    /\ clock = 1
    /\ resp = NoResponse
    /\ InitLive
    /\ InitChat
    /\ InitRace
    /\ pollSeconds = DefaultPollSeconds

NextDiscovery ==
    \/ DoFindPartner
    \/ Deliver

SpecDiscovery == InitDiscovery /\ [][NextDiscovery]_vars

\* The token route next to the routes that make and accept requests.
NextToken ==
    \/ DoRequest
    \/ DoAccept
    \/ DoToken
    \/ Deliver

SpecToken == Init /\ [][NextToken]_vars

\* The friends and partners routes, called on a store nobody registers into.
NextCalls ==
    \/ DoRequest
    \/ DoAccept
    \/ DoGetFriends
    \/ DoGetRequests
    \/ DoFindPartner
    \/ Deliver

SpecCalls == Init /\ [][NextCalls]_vars

(***************************************************************************)
(* Properties of the friend-request state machine (SpecFriends).           *)
(***************************************************************************)
\* The indices of the records between a and b, whichever way they name them.
RecordsFor(fs, a, b) ==
    { i \in 1..Len(fs) :
        \/ {fs[i].requesterId, fs[i].addresseeId} = {a, b}
        \/ {fs[i].userAId, fs[i].userBId} = {a, b} }

\* The step is the handler `op`, called by `caller` with userId `arg`.
Handles(op, caller, arg) ==
    /\ Idle
    /\ resp'.op = op
    /\ resp'.caller = caller
    /\ resp'.arg = arg

PendingFromTo(fs, a, b) ==
    \E i \in 1..Len(fs) :
        fs[i].status = "pending" /\ fs[i].requesterId = a /\ fs[i].addresseeId = b

\* C1: a request by A for an existing user B, when the pair has no record,
\* leaves exactly one record for the pair: pending, requester A, addressee B;
\* the call answers pending.
C1_RequestCreatesPending ==
    [][\A a \in IdPool, b \in IdPool :
        (/\ Handles("request", a, b)
         /\ a # b
         /\ b \in UserIds
         /\ RecordsFor(friendships, a, b) = {})
        => (/\ Cardinality(RecordsFor(friendships', a, b)) = 1
            /\ \A i \in RecordsFor(friendships', a, b) :
                    /\ friendships'[i].status = "pending"
                    /\ friendships'[i].requesterId = a
                    /\ friendships'[i].addresseeId = b
            /\ resp'.status = "pending")]_vars

C1_Witness ==
    /\ resp.op = "request"
    /\ resp.code = 201
    /\ resp.status = "pending"
    /\ Cardinality(RecordsFor(friendships, resp.caller, resp.arg)) = 1

\* C2: when A's request to B is pending and B requests A, the record becomes
\* accepted, keeps requester A and addressee B, no record is added, and the
\* call answers accepted.
C2_ReciprocalRequestAccepts ==
    [][\A a \in IdPool, b \in IdPool :
        (Handles("request", b, a) /\ PendingFromTo(friendships, a, b))
        => (/\ resp'.status = "accepted"
            /\ Len(friendships') = Len(friendships)
            /\ Cardinality(RecordsFor(friendships', a, b)) = 1
            /\ \A i \in RecordsFor(friendships', a, b) :
                    /\ friendships'[i].status = "accepted"
                    /\ friendships'[i].requesterId = a
                    /\ friendships'[i].addresseeId = b
            /\ \A i \in 1..Len(friendships) :
                    i \notin RecordsFor(friendships, a, b)
                        => friendships'[i] = friendships[i])]_vars

C2_Witness ==
    /\ resp.op = "request"
    /\ resp.status = "accepted"
    /\ \E i \in 1..Len(friendships) :
            /\ friendships[i].status = "accepted"
            /\ friendships[i].addresseeId = resp.caller
            /\ friendships[i].requesterId = resp.arg
            /\ friendships[i].updatedAt > friendships[i].createdAt

\* C3: while A's request to B is pending, a further request by A to B
\* answers pending and leaves every record as it is.
C3_RepeatedRequestIdempotent ==
    [][\A a \in IdPool, b \in IdPool :
        (Handles("request", a, b) /\ PendingFromTo(friendships, a, b))
        => (/\ resp'.status = "pending"
            /\ friendships' = friendships)]_vars

C3_Witness ==
    /\ resp.op = "request"
    /\ resp.code = 200
    /\ resp.status = "pending"
    /\ PendingFromTo(friendships, resp.caller, resp.arg)
    /\ clock > 1

\* C4: an accept by X naming Y changes a record only when a pending record
\* with addressee X exists for the pair; X being the requester of the pending
\* record gives 403, no record or an accepted record gives 404, and every
\* failing accept leaves the records as they are.
C4_AcceptAuthorization ==
    [][\A x \in IdPool, y \in IdPool :
        Handles("accept", x, y)
        => (/\ (friendships' # friendships) => PendingFromTo(friendships, y, x)
            /\ PendingFromTo(friendships, x, y) => resp'.code = 403
            /\ (\A i \in RecordsFor(friendships, x, y) :
                    friendships[i].status = "accepted") => resp'.code = 404
            /\ resp'.code # 200 => friendships' = friendships)]_vars

C4_Witness ==
    /\ resp.op = "accept"
    /\ resp.code = 403
    /\ PendingFromTo(friendships, resp.caller, resp.arg)

\* C5: at most one record exists per unordered pair of users.
C5_OneRecordPerPair ==
    \A a \in IdPool, b \in IdPool :
        a # b => Cardinality(RecordsFor(friendships, a, b)) <= 1

C5_Witness ==
    /\ Len(friendships) = 3
    /\ resp.op = "request"
    /\ resp.code = 200
    /\ resp.status = "accepted"

\* C6: while A's request to B is pending, B's incoming list has exactly one
\* entry from A, with the record's createdAt; when B, the addressee, accepts,
\* the record is accepted; from then on each party is in the other's friend
\* list and A is no longer in B's incoming list.
C6_State ==
    \A a \in IdPool, b \in IdPool :
        /\ (resp.op = "requests" /\ resp.caller = b /\ PendingFromTo(friendships, a, b))
           => \E i \in 1..Len(resp.body) :
                /\ resp.body[i].from.id = a
                /\ resp.body[i].createdAt \in Times
                /\ \E k \in RecordsFor(friendships, a, b) :
                        resp.body[i].createdAt = friendships[k].createdAt
                /\ \A j \in 1..Len(resp.body) : resp.body[j].from.id = a => j = i
        /\ (/\ resp.op \in {"requests", "friends"}
            /\ resp.caller \in {a, b}
            /\ \E k \in RecordsFor(friendships, a, b) :
                    /\ friendships[k].status = "accepted"
                    /\ friendships[k].requesterId = a
                    /\ friendships[k].addresseeId = b)
           => IF resp.op = "friends"
              THEN \E i \in 1..Len(resp.body) :
                        resp.body[i].id = (IF resp.caller = a THEN b ELSE a)
              ELSE \A i \in 1..Len(resp.body) : resp.body[i].from.id \notin {a, b}

C6_AcceptStep ==
    \A a \in IdPool, b \in IdPool :
        (Handles("accept", b, a) /\ PendingFromTo(friendships, a, b))
        => (/\ resp'.code = 200
            /\ resp'.status = "accepted"
            /\ \E k \in RecordsFor(friendships', a, b) :
                    /\ friendships'[k].status = "accepted"
                    /\ friendships'[k].requesterId = a
                    /\ friendships'[k].addresseeId = b)

C6_EndToEndAccept == []C6_State /\ [][C6_AcceptStep]_vars

C6_Witness ==
    /\ resp.op = "friends"
    /\ \E k \in 1..Len(friendships) :
            /\ friendships[k].status = "accepted"
            /\ friendships[k].requesterId = resp.caller
            /\ \E i \in 1..Len(resp.body) : resp.body[i].id = friendships[k].addresseeId
    /\ clock > 1

\* C10: no user returned by find-partner has a relationship record with the
\* requester, pending in either direction or accepted, and the requester is
\* never returned.
C10_DiscoveryExclusion ==
    resp.op = "find-partner"
    => \A i \in 1..Len(resp.body) :
            /\ resp.body[i].id # resp.caller
            /\ RecordsFor(friendships, resp.caller, resp.body[i].id) = {}

C10_Witness ==
    /\ resp.op = "find-partner"
    /\ Len(users) = 3
    /\ Len(resp.body) = 1
    /\ \E i \in 1..Len(friendships) :
            friendships[i].status = "pending" /\ friendships[i].addresseeId = resp.caller

\* C11: the find-partner result is the first min(PageSize, n) of the n users,
\* in store order, that are not the requester, have no record with the
\* requester and match every filter given (q, skill, location: substring,
\* ignoring case); it has at most PageSize entries, and the call leaves
\* users and records as they are.
CIContains(hay, needle) ==
    \E i \in 1..(Len(hay) + 1), j \in 0..Len(hay) :
        toLowerCase(SubSeq(hay, i, j)) = toLowerCase(needle)

Wanted(me, arg, u) ==
    /\ u.id # me
    /\ RecordsFor(friendships, me, u.id) = {}
    /\ Trim(arg[1]) # <<>>
        => CIContains(u.username \o <<32>> \o u.fullName \o <<32>> \o u.email, Trim(arg[1]))
    /\ Trim(arg[2]) # <<>> => CIContains(OrElse(u.skill, <<>>), Trim(arg[2]))
    /\ Trim(arg[3]) # <<>> => CIContains(OrElse(u.location, <<>>), Trim(arg[3]))

C11_State ==
    resp.op = "find-partner"
    => LET wanted == SelectSeq(users, LAMBDA u : Wanted(resp.caller, resp.arg, u))
           n == Len(wanted)
       IN  /\ Len(resp.body) = Min(PageSize, n)
           /\ Len(resp.body) <= PageSize
           /\ \A i \in 1..Len(resp.body) : resp.body[i] = publicUser(wanted[i])

C11_ReadOnly ==
    (Idle /\ resp'.op = "find-partner")
    => (users' = users /\ friendships' = friendships)

C11_DiscoveryResult == []C11_State /\ [][C11_ReadOnly]_vars

C11_Witness ==
    /\ resp.op = "find-partner"
    /\ Len(resp.body) = PageSize
    /\ Len(SelectSeq(users, LAMBDA u : Wanted(resp.caller, resp.arg, u))) > PageSize
    /\ friendships # <<>>

\* C12: the pair key does not depend on the order of the two identifiers:
\* friendshipKey(A, B) = friendshipKey(B, A), for the identifiers the
\* handlers are called with and for every stored record, whichever party
\* made the request.
KeyInputs == UserIdInputs \cup { <<97>>, <<97, 95>>, <<97, 95, 95>>, <<95, 97>> }

C12_KeyOrderIndependent ==
    /\ \A a \in KeyInputs, b \in KeyInputs : friendshipKey(a, b) = friendshipKey(b, a)
    /\ \A i \in 1..Len(friendships) :
            /\ friendships[i].key
                    = friendshipKey(friendships[i].requesterId, friendships[i].addresseeId)
            /\ friendships[i].key
                    = friendshipKey(friendships[i].addresseeId, friendships[i].requesterId)

C12_Witness ==
    \E i \in 1..Len(friendships) :
        /\ StrLess(friendships[i].addresseeId, friendships[i].requesterId)
        /\ friendships[i].key
                = friendships[i].addresseeId \o KeySeparator \o friendships[i].requesterId
        /\ friendships[i].status = "accepted"

\* The cookie carries no session of the store `us`.
NoSession(us, cookie) ==
    \/ cookie = NoCookie
    \/ cookie = BadToken
    \/ /\ cookie # NoCookie
       /\ cookie[1].userId \notin { us[i].id : i \in 1..Len(us) }

\* C13: called with a partnerId, the token route answers with a token and a
\* channel id, and creates the channel, only if the status check for caller
\* and partner answered canMessage, which the backend does for an accepted
\* pair alone; once the status check is reached, canMessage false gives 403,
\* an answer of 401 gives 401 and any other answer that is not ok gives 502,
\* each without a token, a channel id or a new channel.
AcceptedPair(fs, a, b) ==
    \E i \in 1..Len(fs) :
        /\ fs[i].status = "accepted"
        /\ {fs[i].requesterId, fs[i].addresseeId} = {a, b}

C13_State ==
    /\ \A ch \in channels :
            \E a \in ch.members, b \in ch.members :
                a # b /\ AcceptedPair(friendships, a, b)
    /\ tokenResp.partnerId # NULL
        => /\ (tokenResp.token # NULL \/ tokenResp.channelId # NULL)
                => tokenResp.check = Some(HttpAnswer(200, TRUE))
           /\ tokenResp.check # NULL
                => LET answer == tokenResp.check[1]
                   IN  IF answer.kind # "http" THEN tokenResp.token = NULL
                       ELSE IF answer.code = 200 /\ answer.canMessage
                       THEN /\ tokenResp.code = 200
                            /\ tokenResp.token # NULL
                            /\ tokenResp.channelId # NULL
                       ELSE /\ tokenResp.token = NULL
                            /\ tokenResp.channelId = NULL
                            /\ tokenResp.code =
                                    IF answer.code = 200 THEN 403
                                    ELSE IF answer.code = 401 THEN 401
                                    ELSE 502

C13_Step ==
    channels' # channels
    => /\ tokenResp'.check = Some(HttpAnswer(200, TRUE))
       /\ tokenResp'.code = 200
       /\ \E ch \in channels' \ channels : tokenResp'.channelId = Some(ch.id)

CallWith(cookie) ==
    \/ \E raw \in UserIdInputs, now \in Nows :
            RequestCall(cookie, raw, now) \/ AcceptCall(cookie, raw, now)
    \/ FriendsCall(cookie)
    \/ RequestsCall(cookie)
    \/ \E query \in QueryInputs : FindPartnerCall(cookie, query)

C14_UnauthorizedRejected ==
    [][\A cookie \in Cookies(users) :
        (NoSession(users, cookie) /\ CallWith(cookie))
        => (/\ resp'.code = 401
            /\ resp'.caller = <<>>
            /\ resp'.body = <<>>
            /\ users' = users
            /\ friendships' = friendships
            /\ clock' = clock)]_vars

C14_Witness ==
    /\ resp.op = "requireAuth"
    /\ resp.code = 401
    /\ friendships # <<>>

(***************************************************************************)
(* Properties of the live-location uplink (SpecLive, SpecLiveFair).        *)
(***************************************************************************)
\* C7: within a sharing session at least ThrottleMs pass between the starts
\* of any two successive live-location PUTs.
C7_MinimumGap == \A r \in puts : ~r.early

\* C8: once sharing is left, no throttle timer is pending and no further
\* live-location PUT is started.
C8_NothingAfterLeave ==
    obs.phase = "left" => (timer = NULL /\ \A r \in puts : ~r.late)

\* C9: a fix whose accuracy exceeds the threshold is never queued nor sent,
\* but it is displayed; a fix within the threshold is queued, and while the
\* component stays mounted it is sent or superseded by a later fix that is.
Coarse(accuracy) == accuracy # NULL /\ accuracy[1] > MAX_ACCEPTABLE_ACCURACY_M

C9_State ==
    /\ queuedPayloadRef # NULL => ~Coarse(queuedPayloadRef[1].accuracy)
    /\ \A r \in puts : ~Coarse(r.body.accuracy)
    /\ (comp = "mounted" /\ obs.fixes > 0)
        => (deviceFix # NULL /\ deviceFix[1].at = obs.fixes)
    /\ obs.goodMax > obs.sentMax
        => (queuedPayloadRef # NULL /\ queuedPayloadRef[1].at >= obs.goodMax)

C9_AccuracyGate ==
    /\ []C9_State
    /\ \A n \in 1..MaxFixes :
            (obs.goodMax = n) ~> (comp = "unmounted" \/ obs.sentMax >= n)

C9_Witness ==
    /\ comp = "mounted"
    /\ deviceFix # NULL
    /\ Coarse(deviceFix[1].accuracy)
    /\ obs.goodMax > 0
    /\ obs.sentMax = obs.goodMax
    /\ queuedPayloadRef = NULL
    /\ puts = {}

\* C15: at every moment at most one live-location PUT is in flight, and
\* inFlightRef is set while one is, whatever the order of device fixes, timer
\* callbacks and request completions.
C15_SingleFlight ==
    /\ Cardinality(puts) <= 1
    /\ puts # {} => inFlightRef

\* a timer callback found a PUT in flight and left the queued fix alone
C15_Witness ==
    /\ sharing
    /\ Cardinality(puts) = 1
    /\ queuedPayloadRef # NULL
    /\ timer = NULL

\* C16: the queue holds at most one fix, and it is the most recently accepted
\* one; accepting a fix puts that fix in the queue whatever was queued; every
\* PUT that starts carries the most recently accepted fix, which is newer
\* than every fix sent before.
C16_State ==
    /\ Len(queuedPayloadRef) <= 1
    /\ queuedPayloadRef # NULL => queuedPayloadRef[1].at = obs.goodMax
    /\ \A r \in puts : r.body.at <= obs.goodMax

C16_Step ==
    /\ obs'.goodMax # obs.goodMax
        => (queuedPayloadRef' # NULL /\ queuedPayloadRef'[1].at = obs'.fixes)
    /\ \A r \in puts' \ puts :
        ~r.aged =>
            /\ queuedPayloadRef # NULL
            /\ r.body = queuedPayloadRef[1]
            /\ r.body.at = obs'.goodMax
            /\ r.body.at > obs.sentMax

C16_DrainLatest == []C16_State /\ [][C16_Step]_vars

\* the second fix goes out right after the PUT of the first
C16_Witness ==
    /\ obs.goodMax = 2
    /\ \E r \in puts : r.body.at = 2 /\ r.early

\* C17: a queued fix always has a pending timer or a PUT in flight to pick
\* it up while the component is mounted; when a PUT completes with a fix
\* queued, the PUT of that fix starts in the same step; and, with time
\* passing, timers firing and requests completing, every accepted fix is
\* sent or superseded by a later one that is sent, unless the component is
\* unmounted.
C17_State ==
    (comp = "mounted" /\ queuedPayloadRef # NULL) => (timer # NULL \/ inFlightRef)

C17_Step ==
    \A req \in puts, ok \in BOOLEAN :
        (queuedPayloadRef # NULL /\ PutDone(req, ok))
            => /\ queuedPayloadRef' = NULL
               /\ \E r \in puts' : r.body = queuedPayloadRef[1] /\ ~r.aged

C17_UplinkLiveness ==
    /\ []C17_State
    /\ [][C17_Step]_vars
    /\ (obs.goodMax > obs.sentMax) ~> (comp = "unmounted" \/ obs.sentMax = obs.goodMax)

\* the fix queued during the PUT of the first one was picked up by the
\* finally block, ahead of the timer that was set for it
C17_Witness ==
    /\ comp = "mounted"
    /\ timer # NULL
    /\ queuedPayloadRef = NULL
    /\ \E r \in puts : r.body.at = 2

\* C18: when a PUT that was in flight when sharing was left completes, with
\* success or failure, nothing follows from it: the error message, the time
\* of the last send, the fetches under way and the queue stay as they are,
\* and no PUT starts.
C18_ResultIgnored ==
    [][\A req \in puts, ok \in BOOLEAN :
            (obs.phase = "left" /\ ~req.late /\ PutDone(req, ok))
                => /\ error' = error
                   /\ sinceSent' = sinceSent
                   /\ fetches' = fetches
                   /\ queuedPayloadRef' = queuedPayloadRef
                   /\ puts' = puts \ {req}]_vars

\* C19: when a PUT fails while sharing, sharing goes on and the fix is still
\* there to be sent again: it is queued, or a PUT of it has started.
C19_RetryAfterFailure ==
    [][\A req \in puts :
            (sharing /\ PutDone(req, FALSE))
                => /\ sharing'
                   /\ \/ queuedPayloadRef' # NULL
                      \/ puts' # {}]_vars

\* C20: at most one device watch is held, and a handle only while sharing;
\* the stop button and a watch error alike cancel the watch, clear the
\* handle, set sharing to false and start a DELETE; the completion of a
\* DELETE, failed or not, changes nothing else; and sharing turns true only
\* by startSharing.
C20_State ==
    /\ watches <= 1
    /\ watches = (IF watchIdRef THEN 1 ELSE 0)
    /\ watchIdRef => sharing

C20_Step ==
    /\ (StopSharing \/ WatchError)
        => /\ watches' = 0
           /\ ~watchIdRef'
           /\ ~sharing'
           /\ deletes' = deletes + 1
    /\ DeleteComplete
        => UNCHANGED <<comp, sharing, error, gpsWarning, watchIdRef, watches>>
    /\ (~sharing /\ sharing') => StartSharing

C20_LeavingSharing == []C20_State /\ [][C20_Step]_vars

\* the device watch failed, the DELETE it started is done, and the user has
\* not started again
C20_Witness ==
    /\ comp = "mounted"
    /\ error = "watch"
    /\ obs.phase = "left"
    /\ ~sharing
    /\ watches = 0
    /\ deletes = 0

(***************************************************************************)
(* Further properties of the relationship records (SpecFriends).           *)
(***************************************************************************)
\* C21: no step removes or reorders a record; an accepted record stays as it
\* is, field by field; a pending record stays as it is or becomes accepted,
\* with only status and updatedAt changed; and a request by either party of
\* an accepted pair answers accepted and changes no record.
C21_Step ==
    /\ Len(friendships') >= Len(friendships)
    /\ \A i \in 1..Len(friendships) :
            IF friendships[i].status = "accepted"
            THEN friendships'[i] = friendships[i]
            ELSE \/ friendships'[i] = friendships[i]
                 \/ /\ friendships'[i].status = "accepted"
                    /\ friendships'[i]
                        = [friendships[i] EXCEPT !.status = "accepted",
                                                 !.updatedAt = friendships'[i].updatedAt]
    /\ \A i \in (Len(friendships) + 1)..Len(friendships') :
            friendships'[i].status = "pending"
    /\ \A a \in IdPool, b \in IdPool :
            (Handles("request", a, b) /\ AcceptedPair(friendships, a, b))
                => /\ resp'.code = 200
                   /\ resp'.status = "accepted"
                   /\ friendships' = friendships

C21_AcceptedTerminal == [][C21_Step]_vars

\* the requester of an accepted record asks again, at a later time
C21_Witness ==
    /\ resp.op = "request"
    /\ resp.status = "accepted"
    /\ \E i \in 1..Len(friendships) :
            /\ friendships[i].status = "accepted"
            /\ friendships[i].requesterId = resp.caller
            /\ friendships[i].addresseeId = resp.arg
            /\ friendships[i].updatedAt < clock

\* C22: a request with a missing or blank userId, or naming the caller,
\* answers 400; one naming an identifier that is not a user answers 404;
\* either way the records are as before.
C22_Step ==
    \A a \in IdPool, raw \in UserIdInputs :
        Handles("request", a, Trim(raw))
            => /\ (Trim(raw) = <<>> \/ Trim(raw) = a)
                    => (resp'.code = 400 /\ friendships' = friendships)
               /\ (Trim(raw) # <<>> /\ Trim(raw) # a /\ Trim(raw) \notin UserIds)
                    => (resp'.code = 404 /\ friendships' = friendships)
               /\ resp'.code \in {400, 404} => friendships' = friendships

C22_RejectedRequestChangesNothing == [][C22_Step]_vars

\* a request for an identifier nobody registered with, answered 404 while
\* records exist
C22_Witness ==
    /\ resp.op = "request"
    /\ resp.code = 404
    /\ resp.arg \notin UserIds
    /\ friendships # <<>>

\* C23: every record has requester # addressee, {userA, userB} = {requester,
\* addressee}, userA sorting before userB, the key of the pair and a status of
\* pending or accepted; and no step changes the requester or the addressee of
\* a record.
C23_State ==
    \A i \in 1..Len(friendships) :
        LET f == friendships[i]
        IN  /\ f.requesterId # f.addresseeId
            /\ {f.userAId, f.userBId} = {f.requesterId, f.addresseeId}
            /\ StrLess(f.userAId, f.userBId)
            /\ f.key = friendshipKey(f.userAId, f.userBId)
            /\ f.key = f.userAId \o KeySeparator \o f.userBId
            /\ f.status \in {"pending", "accepted"}

C23_Step ==
    \A i \in 1..Len(friendships) :
        /\ i <= Len(friendships')
        /\ friendships'[i].requesterId = friendships[i].requesterId
        /\ friendships'[i].addresseeId = friendships[i].addresseeId

C23_RecordWellFormed == []C23_State /\ [][C23_Step]_vars

\* a record whose requester sorts first next to one whose requester sorts
\* last, one of them accepted
C23_Witness ==
    \E i \in 1..Len(friendships), j \in 1..Len(friendships) :
        /\ friendships[i].requesterId = friendships[i].userAId
        /\ friendships[j].requesterId = friendships[j].userBId
        /\ friendships[j].status = "accepted"

\* C24: GET /friends for A lists B exactly when an accepted record exists
\* for the pair {A, B}, each friend once; so B is listed for A exactly when
\* A is listed for B, and the other party of a pending record is not listed.
FriendIds(us, fs, a) ==
    { listFriends(us, fs, a)[i].id : i \in 1..Len(listFriends(us, fs, a)) }

C24_FriendsExact ==
    resp.op = "friends"
    => LET listed == { resp.body[i].id : i \in 1..Len(resp.body) }
       IN  /\ listed = { b \in UserIds : AcceptedPair(friendships, resp.caller, b) }
           /\ \A i \in 1..Len(resp.body), j \in 1..Len(resp.body) :
                    resp.body[i].id = resp.body[j].id => i = j
           /\ \A i \in 1..Len(resp.body) :
                    resp.body[i] = publicUser(findUser(users, resp.body[i].id)[1])
           /\ \A b \in UserIds :
                    /\ b \in listed <=> resp.caller \in FriendIds(users, friendships, b)
                    /\ (\/ PendingFromTo(friendships, resp.caller, b)
                        \/ PendingFromTo(friendships, b, resp.caller))
                            => b \notin listed

\* a list with one friend for a caller who also is a party of a pending
\* record
C24_Witness ==
    /\ resp.op = "friends"
    /\ Len(resp.body) = 1
    /\ \E b \in UserIds :
            PendingFromTo(friendships, resp.caller, b) \/ PendingFromTo(friendships, b, resp.caller)

\* C25: GET /friends/requests for U returns, in store order, one entry for
\* each pending record whose addressee is U: the public profile of its
\* requester and its createdAt; so U's own pending requests and accepted
\* records are not in it.
C25_RequestsExact ==
    resp.op = "requests"
    => LET incoming == SelectSeq(friendships, LAMBDA f :
                            f.status = "pending" /\ f.addresseeId = resp.caller)
       IN  /\ Len(resp.body) = Len(incoming)
           /\ \A i \in 1..Len(resp.body) :
                    /\ resp.body[i].from.id = incoming[i].requesterId
                    /\ resp.body[i].from
                            = publicUser(findUser(users, incoming[i].requesterId)[1])
                    /\ resp.body[i].createdAt = incoming[i].createdAt
                    /\ resp.body[i].from.id # resp.caller
                    /\ ~AcceptedPair(friendships, resp.caller, resp.body[i].from.id)

\* one incoming request for a caller who has accepted another and sent a
\* third
C25_Witness ==
    /\ resp.op = "requests"
    /\ Len(resp.body) = 1
    /\ \E i \in 1..Len(friendships) :
            friendships[i].status = "accepted" /\ friendships[i].addresseeId = resp.caller

C27_LatestResponseShown ==
    /\ locations # "older"
    /\ (comp = "mounted" /\ locations = "none") => stale = 0

(***************************************************************************)
(* Properties of registration (SpecRegister).                              *)
(***************************************************************************)
\* C30: no two stored users have the same email ignoring case, and a
\* registration with an email that, trimmed and ignoring case, is the email
\* of a stored user answers 409 and adds no user.
C30_State ==
    \A i \in 1..Len(users), j \in 1..Len(users) :
        toLowerCase(users[i].email) = toLowerCase(users[j].email) => i = j

C30_Step ==
    (/\ Idle
     /\ resp'.op = "register"
     /\ \E i \in 1..Len(users) :
            toLowerCase(users[i].email) = toLowerCase(Trim(resp'.arg)))
    => (resp'.code = 409 /\ users' = users)

C30_UniqueEmail == []C30_State /\ [][C30_Step]_vars

(***************************************************************************)
(* Properties of the store under concurrent handlers (SpecRace)            *)
(***************************************************************************)
\* the datasets there are: db.data, the file, what the reads under way have
\* read, and what the writes under way will store
Datasets ==
    {data, Dataset(users, friendships)}
        \cup { handlers[p].snap[1] : p \in { q \in Procs : handlers[q].snap # NULL } }
        \cup { writes[i].data : i \in 1..Len(writes) }

OneRecordPerKey(fs) == \A i, j \in 1..Len(fs) : fs[i].key = fs[j].key => i = j

Quiescent ==
    /\ writes = <<>>
    /\ \A p \in Procs : handlers[p].pc \in {"idle", "done"}

\* C28: however the handlers of friend requests and acceptances interleave
\* at their awaits on db.read and db.write, neither db.data nor the file
\* (nor any dataset read or about to be written) holds two relationship
\* records with the same pair key.
C28_NoDuplicateKey == \A d \in Datasets : OneRecordPerKey(d.friendships)

\* Two requests for one pair, handled concurrently, both answered 201, and
\* the file holds the one record of the pair.
C28_Witness ==
    /\ Quiescent
    /\ \E p, q \in Procs :
        /\ p # q
        /\ handlers[p].code = 201 /\ handlers[q].code = 201
        /\ handlers[p].ack.kind = "created" /\ handlers[q].ack.kind = "created"
        /\ handlers[p].ack.key = handlers[q].ack.key
        /\ handlers[p].myId # handlers[q].myId
        /\ findByKey(friendships, handlers[p].ack.key) # 0
    /\ findByKey(data.friendships, friendshipKey(<<98, 48>>, <<97, 49>>)) # 0

\* C29: once all handlers have completed, every change acknowledged with a
\* success response is in the file: a record created is there under its
\* key, an acceptance is there as an accepted record, a user registered is
\* there.
C29_AcknowledgedPersisted ==
    Quiescent =>
        \A p \in Procs :
            LET ack == handlers[p].ack
                at == findByKey(friendships, ack.key)
            IN  /\ ack.kind = "created" => at # 0
                /\ ack.kind = "accepted" => (at # 0 /\ friendships[at].status = "accepted")
                /\ ack.kind = "registered" => findUser(users, ack.key) # NULL

====
